---------------------------- MODULE Spec2Model ----------------------------
(***************************************************************************)
(* Model of trakt.api.HttpClient (src/trakt/api.py) and of the module      *)
(* globals of trakt.core it is wired to (src/trakt/core.py).               *)
(*                                                                         *)
(* One client object is modelled.  Its state is the stored credential, the *)
(* lru_cache of the error_map property and the position of the current     *)
(* call.  A call is split at its only suspension point, the blocking       *)
(* transport call session.request(...): a call action evaluates the        *)
(* arguments of session.request, the transport then answers with a         *)
(* response, fails with an exception, or stays silent, and the rest of     *)
(* HttpClient.request runs in the same step as the transport's answer.     *)
(*                                                                         *)
(* Bytes are integers 0..255, text is a sequence of code points, Python    *)
(* values are tagged records.                                              *)
(***************************************************************************)
EXTENDS Integers, Sequences, FiniteSets, TLC

(***************************************************************************)
(* Bounds of the model.                                                    *)
(***************************************************************************)
\* longest response body, in bytes
MaxBodyLen == 2

(***************************************************************************)
(* Program constants.                                                      *)
(***************************************************************************)
\* core.py:78  TIMEOUT = 30
TIMEOUT == 30
\* api.py:63  the status code of "HTTP no content"
NO_CONTENT == 204
\* core.py:33  BASE_URL
BASE_URL == "https://api.trakt.tv/"
\* api.py:19  HttpClient.headers
headers == [ContentType |-> "application/json", TraktApiVersion |-> "2"]

(***************************************************************************)
(* Python values.                                                          *)
(***************************************************************************)
PyNone == [t |-> "None"]
PyInt(n) == [t |-> "int", n |-> n]
PyStr(s) == [t |-> "str", s |-> s]
PyList(xs) == [t |-> "list", xs |-> xs]
PyDict(items) == [t |-> "dict", items |-> items]

\* code points of the characters the model writes or reads
Ord ==
    ("[" :> 91) @@ ("]" :> 93) @@ ("{" :> 123) @@ ("}" :> 125) @@
    ("\"" :> 34) @@ ("," :> 44) @@ (":" :> 58) @@ (" " :> 32) @@
    ("-" :> 45) @@ ("0" :> 48) @@ ("1" :> 49) @@ ("9" :> 57) @@
    ("\\" :> 92) @@ ("\t" :> 9) @@ ("\n" :> 10) @@ ("\r" :> 13) @@
    ("a" :> 97) @@ ("e" :> 101) @@ ("g" :> 103) @@ ("l" :> 108) @@
    ("n" :> 110) @@ ("p" :> 112) @@ ("u" :> 117)


(***************************************************************************)
(* json.dumps(data), api.py:60, with the default separators ", " and ": ". *)
(* The result is text.                                                     *)
(***************************************************************************)
RECURSIVE Digits(_)
Digits(n) ==
    IF n < 10 THEN <<Ord["0"] + n>>
    ELSE Digits(n \div 10) \o <<Ord["0"] + (n % 10)>>

RECURSIVE json_dumps(_)
RECURSIVE dumps_list(_, _)
RECURSIVE dumps_items(_, _)
json_dumps(v) ==
    CASE v.t = "None" -> <<Ord["n"], Ord["u"], Ord["l"], Ord["l"]>>
      [] v.t = "int"  -> IF v.n < 0 THEN <<Ord["-"]>> \o Digits(0 - v.n)
                         ELSE Digits(v.n)
      [] v.t = "str"  -> <<Ord["\""]>> \o v.s \o <<Ord["\""]>>
      [] v.t = "list" -> <<Ord["["]>> \o dumps_list(v.xs, 1) \o <<Ord["]"]>>
      [] v.t = "dict" -> <<Ord["{"]>> \o dumps_items(v.items, 1) \o <<Ord["}"]>>

dumps_list(xs, i) ==
    IF i > Len(xs) THEN <<>>
    ELSE (IF i > 1 THEN <<Ord[","], Ord[" "]>> ELSE <<>>)
         \o json_dumps(xs[i]) \o dumps_list(xs, i + 1)

dumps_items(items, i) ==
    IF i > Len(items) THEN <<>>
    ELSE (IF i > 1 THEN <<Ord[","], Ord[" "]>> ELSE <<>>)
         \o json_dumps(items[i][1]) \o <<Ord[":"], Ord[" "]>>
         \o json_dumps(items[i][2]) \o dumps_items(items, i + 1)

(***************************************************************************)
(* response.content.decode('UTF-8', 'ignore'), api.py:72.  A well-formed   *)
(* UTF-8 sequence yields its code point; a byte that starts no well-formed *)
(* sequence is dropped and decoding goes on at the next byte.              *)
(***************************************************************************)
IsCont(b) == b >= 128 /\ b <= 191

\* the least and greatest second byte allowed after lead byte b
SecondLo(b) == IF b = 224 THEN 160 ELSE IF b = 240 THEN 144 ELSE 128
SecondHi(b) == IF b = 237 THEN 159 ELSE IF b = 244 THEN 143 ELSE 191

\* length of the well-formed sequence that starts at bs[i], 0 if there is none
Utf8Len(bs, i) ==
    LET b == bs[i]
        n == IF b < 128 THEN 1
             ELSE IF b >= 194 /\ b <= 223 THEN 2
             ELSE IF b >= 224 /\ b <= 239 THEN 3
             ELSE IF b >= 240 /\ b <= 244 THEN 4
             ELSE 0
    IN  IF n = 0 \/ i + n - 1 > Len(bs) THEN 0
        ELSE IF n = 1 THEN 1
        ELSE IF /\ bs[i + 1] >= SecondLo(b)
                /\ bs[i + 1] <= SecondHi(b)
                /\ \A k \in 2 .. (n - 1) : IsCont(bs[i + k])
             THEN n
             ELSE 0

Utf8CodePoint(bs, i, n) ==
    CASE n = 1 -> bs[i]
      [] n = 2 -> (bs[i] - 192) * 64 + (bs[i + 1] - 128)
      [] n = 3 -> (bs[i] - 224) * 4096 + (bs[i + 1] - 128) * 64
                  + (bs[i + 2] - 128)
      [] n = 4 -> (bs[i] - 240) * 262144 + (bs[i + 1] - 128) * 4096
                  + (bs[i + 2] - 128) * 64 + (bs[i + 3] - 128)

RECURSIVE decode_from(_, _)
decode_from(bs, i) ==
    IF i > Len(bs) THEN <<>>
    ELSE LET n == Utf8Len(bs, i)
         IN  IF n = 0 THEN decode_from(bs, i + 1)
             ELSE <<Utf8CodePoint(bs, i, n)>> \o decode_from(bs, i + n)

decode_utf8_ignore(bs) == decode_from(bs, 1)

(***************************************************************************)
(* json.loads(text), api.py:72.  The scanner covers the JSON syntax that   *)
(* text decoded from BodyBytes can form: white space, arrays, strings      *)
(* without escapes and integers.  A scan result is [ok, value, end], end   *)
(* being the index after the value; ok = FALSE stands for JSONDecodeError. *)
(***************************************************************************)
ScanFail == [ok |-> FALSE, value |-> PyNone, end |-> 0]
ScanOk(v, e) == [ok |-> TRUE, value |-> v, end |-> e]

IsWs(c) == c \in {Ord[" "], Ord["\t"], Ord["\n"], Ord["\r"]}
IsDigit(c) == c >= Ord["0"] /\ c <= Ord["9"]

RECURSIVE SkipWs(_, _)
SkipWs(s, i) ==
    IF i <= Len(s) /\ IsWs(s[i]) THEN SkipWs(s, i + 1) ELSE i

RECURSIVE DigitsEnd(_, _)
DigitsEnd(s, i) ==
    IF i <= Len(s) /\ IsDigit(s[i]) THEN DigitsEnd(s, i + 1) ELSE i

RECURSIVE IntValue(_, _, _)
IntValue(s, i, j) ==
    IF j < i THEN 0
    ELSE IntValue(s, i, j - 1) * 10 + (s[j] - Ord["0"])

\* index of the quote that closes a string whose content starts at i, 0 if
\* the string is unterminated or holds a control character
RECURSIVE StringEnd(_, _)
StringEnd(s, i) ==
    IF i > Len(s) THEN 0
    ELSE IF s[i] = Ord["\""] THEN i
    ELSE IF s[i] < Ord[" "] THEN 0
    ELSE StringEnd(s, i + 1)

scan_number(s, i) ==
    LET d == IF s[i] = Ord["-"] THEN i + 1 ELSE i
    IN  IF d > Len(s) \/ ~IsDigit(s[d]) THEN ScanFail
        ELSE LET e == IF s[d] = Ord["0"] THEN d + 1 ELSE DigitsEnd(s, d)
                 n == IntValue(s, d, e - 1)
             IN  ScanOk(PyInt(IF d = i THEN n ELSE 0 - n), e)

RECURSIVE scan_once(_, _)
RECURSIVE array_items(_, _, _)
scan_once(s, i) ==
    IF i > Len(s) THEN ScanFail
    ELSE IF s[i] = Ord["\""] THEN
        LET j == StringEnd(s, i + 1)
        IN  IF j = 0 THEN ScanFail
            ELSE ScanOk(PyStr(SubSeq(s, i + 1, j - 1)), j + 1)
    ELSE IF s[i] = Ord["["] THEN
        LET j == SkipWs(s, i + 1)
        IN  IF j <= Len(s) /\ s[j] = Ord["]"] THEN ScanOk(PyList(<<>>), j + 1)
            ELSE array_items(s, j, <<>>)
    ELSE IF IsDigit(s[i]) \/ s[i] = Ord["-"] THEN scan_number(s, i)
    ELSE ScanFail

array_items(s, i, acc) ==
    LET r == scan_once(s, i)
    IN  IF ~r.ok THEN ScanFail
        ELSE LET j == SkipWs(s, r.end)
                 xs == Append(acc, r.value)
             IN  IF j > Len(s) THEN ScanFail
                 ELSE IF s[j] = Ord["]"] THEN ScanOk(PyList(xs), j + 1)
                 ELSE IF s[j] = Ord[","]
                      THEN array_items(s, SkipWs(s, j + 1), xs)
                 ELSE ScanFail

\* JSONDecoder.decode: one value, white space around it, nothing else
json_loads(s) ==
    LET r == scan_once(s, SkipWs(s, 1))
    IN  IF ~r.ok THEN ScanFail
        ELSE IF SkipWs(s, r.end) # Len(s) + 1 THEN ScanFail
        ELSE r

(***************************************************************************)
(* The declarations of trakt.errors that error_map reads: the names listed *)
(* in errors.__all__, in order, each with the http_code of its class.      *)
(***************************************************************************)
\* the base kind, left out of the map by name (api.py:88); it stands for no
\* status code, written 0 here
TraktException == [name |-> "TraktException", http_code |-> 0]

\* every list of declarations of the model: the base kind and two more
\* kinds; 204 may be declared, and both kinds may declare 404
ErrorDecls ==
    { <<TraktException,
        [name |-> "NotFoundException", http_code |-> c1],
        [name |-> "TraktUnavailable", http_code |-> c2]>> :
      c1 \in {204, 404}, c2 \in {404, 503} }

\* the declarations as the package ships them: one kind per status code,
\* each the code of a failed call
WellFormedDecls ==
    { d \in ErrorDecls :
        /\ \A i \in 2 .. Len(d) : d[i].http_code >= 400
        /\ \A i, j \in 2 .. Len(d) : i # j => d[i].http_code # d[j].http_code }

(***************************************************************************)
(* HttpClient.error_map, api.py:80-90.                                     *)
(***************************************************************************)
\* api.py:87-88
errs(all) == SelectSeq(all, LAMBDA k : k.name # "TraktException")

\* api.py:90: a dict comprehension, so a later kind replaces an earlier one
\* that has the same http_code
error_map_last(es) ==
    [c \in {es[i].http_code : i \in 1 .. Len(es)} |->
        es[CHOOSE i \in 1 .. Len(es) :
              /\ es[i].http_code = c
              /\ \A j \in 1 .. Len(es) : es[j].http_code = c => j <= i].name]

error_map(all) == error_map_last(errs(all))

(***************************************************************************)
(* The transport: what session.request is called with and what it gives.   *)
(***************************************************************************)
NoAuth == "None"
Credentials == {"tokenA"}

Methods == {"get", "post", "put", "delete"}
Urls == {"users/me"}
Payloads == {PyNone, PyDict(<< <<PyStr(<<Ord["p"], Ord["a"], Ord["g"], Ord["e"]>>), PyInt(2)>> >>)}

\* a keyword argument that is not passed
NoBody == [given |-> FALSE, text |-> <<>>]
Body(text) == [given |-> TRUE, text |-> text]
NoTimeout == [given |-> FALSE, seconds |-> 0]
Timeout(n) == [given |-> TRUE, seconds |-> n]

NoCall ==
    [method |-> "", url |-> "", headers |-> headers, auth |-> NoAuth,
     params |-> PyNone, data |-> NoBody, timeout |-> NoTimeout]

StatusCodes == {200, 204, 400, 404, 503}
\* '[', ']', '1' and the two bytes of U+00E9: 0xC3 with no 0xA9 after it is
\* a cut-off sequence, 0xA9 with no 0xC3 before it a stray continuation byte
BodyBytes == {91, 93, 49, 195, 169}

RECURSIVE SeqsUpTo(_, _)
SeqsUpTo(S, n) ==
    IF n = 0 THEN {<<>>}
    ELSE LET shorter == SeqsUpTo(S, n - 1)
         IN  shorter \cup {Append(q, x) : q \in shorter, x \in S}

Bodies == SeqsUpTo(BodyBytes, MaxBodyLen)

NoResponse == [kind |-> "none", status_code |-> 0, content |-> <<>>, exc |-> ""]
Response(status, content) ==
    [kind |-> "response", status_code |-> status, content |-> content, exc |-> ""]
TransportError(e) ==
    [kind |-> "error", status_code |-> 0, content |-> <<>>, exc |-> e]

\* exceptions of the transport layer
TransportExceptions == {"ConnectionError"}

(***************************************************************************)
(* Outcomes of a call.                                                     *)
(***************************************************************************)
NoOutcome == [kind |-> "none", value |-> PyNone, exc |-> "", response |-> NoResponse]
Return(v) == [kind |-> "return", value |-> v, exc |-> "", response |-> NoResponse]
Raise(e, r) == [kind |-> "raise", value |-> PyNone, exc |-> e, response |-> r]

(***************************************************************************)
(* State.                                                                  *)
(***************************************************************************)
VARIABLES
    auth,             \* HttpClient.auth
    installed,        \* the argument of the latest set_auth, NoAuth before any
    errors_all,       \* the declarations of trakt.errors
    error_map_cache,  \* the lru_cache of HttpClient.error_map
    pc,               \* "idle", "sent" (in session.request), "done", "blocked"
    call,             \* the entry point called and its arguments
    sent,             \* the arguments session.request was called with
    transport_calls,  \* session.request calls made by the current call
    response,         \* what the transport gave
    looked_up,        \* raise_if_needed was reached by the current call
    decoded,          \* decode_response was reached by the current call
    outcome,          \* how HttpClient.request ended
    result            \* how the entry point ended

vars ==
    <<auth, installed, errors_all, error_map_cache, pc, call, sent,
      transport_calls, response, looked_up, decoded, outcome, result>>

NoCache == [built |-> FALSE, map |-> <<>>]
Cached(m) == [built |-> TRUE, map |-> m]

NoEntry == [entry |-> "", method |-> "", url |-> "", data |-> PyNone]

(***************************************************************************)
(* HttpClient.request, api.py:42-67, and what it calls.                    *)
(***************************************************************************)
\* faulty variant: the payload of a GET is sent as the body too
session_request_args_get_body(method, url, data, cred) ==
    [method |-> method, url |-> BASE_URL \o url, headers |-> headers,
     auth |-> cred, params |-> IF method = "get" THEN data ELSE PyNone,
     data |-> Body(json_dumps(data)), timeout |-> NoTimeout]

\* faulty variant: the stored credential is not passed to the transport
session_request_args_no_auth(method, url, data, cred) ==
    IF method = "get"
    THEN [method |-> method, url |-> BASE_URL \o url, headers |-> headers,
          auth |-> NoAuth, params |-> data, data |-> NoBody,
          timeout |-> NoTimeout]
    ELSE [method |-> method, url |-> BASE_URL \o url, headers |-> headers,
          auth |-> NoAuth, params |-> PyNone, data |-> Body(json_dumps(data)),
          timeout |-> NoTimeout]

\* api.py:55-60: the arguments of session.request; cred is self.auth
session_request_args(method, url, data, cred) ==
    IF method = "get"
    THEN [method |-> method, url |-> BASE_URL \o url, headers |-> headers,
          auth |-> cred, params |-> data, data |-> NoBody,
          timeout |-> NoTimeout]
    ELSE [method |-> method, url |-> BASE_URL \o url, headers |-> headers,
          auth |-> cred, params |-> PyNone, data |-> Body(json_dumps(data)),
          timeout |-> NoTimeout]

\* faulty variant: an exception of session.request is turned into BadResponseException
transport_exception_wrapped(e) == Raise("BadResponseException", NoResponse)

\* api.py:58,60: an exception of session.request is not caught
transport_exception(e) == Raise(e, NoResponse)

RECURSIVE valid_utf8_from(_, _)
valid_utf8_from(bs, i) ==
    \/ i > Len(bs)
    \/ /\ Utf8Len(bs, i) > 0
       /\ valid_utf8_from(bs, i + Utf8Len(bs, i))

\* faulty variant: strict decoding, an undecodable byte raises UnicodeDecodeError
decode_response_strict(r) ==
    IF ~valid_utf8_from(r.content, 1)
    THEN Raise("UnicodeDecodeError", NoResponse)
    ELSE LET parsed == json_loads(decode_utf8_ignore(r.content))
         IN  IF parsed.ok THEN Return(parsed.value)
             ELSE Raise("BadResponseException", NoResponse)

\* api.py:70-74
decode_response(r) ==
    LET parsed == json_loads(decode_utf8_ignore(r.content))
    IN  IF parsed.ok THEN Return(parsed.value)
        ELSE Raise("BadResponseException", NoResponse)

\* faulty variant: only server errors are raised
raise_if_needed_5xx(map, r) ==
    IF r.status_code \in DOMAIN map /\ r.status_code >= 500
    THEN Raise(map[r.status_code], r)
    ELSE NoOutcome

\* api.py:76-78; NoOutcome when nothing is raised
raise_if_needed(map, r) ==
    IF r.status_code \in DOMAIN map THEN Raise(map[r.status_code], r)
    ELSE NoOutcome

\* api.py:80-82: the cached map, built on first use
cached_error_map(cache, all) ==
    IF cache.built THEN cache.map ELSE error_map(all)

\* faulty variant: the error map is consulted before the 204 check
handle_response_lookup_first(cache, all, r) ==
    LET map == cached_error_map(cache, all)
        raised == raise_if_needed(map, r)
    IN  IF raised.kind = "raise"
        THEN [outcome |-> raised, cache |-> Cached(map),
              looked_up |-> TRUE, decoded |-> FALSE]
        ELSE IF r.status_code = NO_CONTENT
        THEN [outcome |-> Return(PyNone), cache |-> Cached(map),
              looked_up |-> TRUE, decoded |-> FALSE]
        ELSE [outcome |-> decode_response(r), cache |-> Cached(map),
              looked_up |-> TRUE, decoded |-> TRUE]

\* api.py:63-67: request once the response r is there
handle_response(cache, all, r) ==
    IF r.status_code = NO_CONTENT
    THEN [outcome |-> Return(PyNone), cache |-> cache,
          looked_up |-> FALSE, decoded |-> FALSE]
    ELSE LET map == cached_error_map(cache, all)
             raised == raise_if_needed(map, r)
         IN  IF raised.kind = "raise"
             THEN [outcome |-> raised, cache |-> Cached(map),
                   looked_up |-> TRUE, decoded |-> FALSE]
             ELSE [outcome |-> decode_response(r), cache |-> Cached(map),
                   looked_up |-> TRUE, decoded |-> TRUE]

\* api.py:27-37: get, post and put return what request returns, delete
\* drops it; an exception passes through all four
entry_result(entry, o) ==
    IF entry = "delete" /\ o.kind = "return" THEN Return(PyNone) ELSE o

(***************************************************************************)
(* Actions.                                                                *)
(***************************************************************************)
Init ==
    /\ auth = NoAuth
    /\ installed = NoAuth
    /\ errors_all \in WellFormedDecls
    /\ error_map_cache = NoCache
    /\ pc = "idle"
    /\ call = NoEntry
    /\ sent = NoCall
    /\ transport_calls = 0
    /\ response = NoResponse
    /\ looked_up = FALSE
    /\ decoded = FALSE
    /\ outcome = NoOutcome
    /\ result = NoOutcome

\* the same client over any declarations of trakt.errors
InitAnyDecls ==
    /\ auth = NoAuth
    /\ installed = NoAuth
    /\ errors_all \in ErrorDecls
    /\ error_map_cache = NoCache
    /\ pc = "idle"
    /\ call = NoEntry
    /\ sent = NoCall
    /\ transport_calls = 0
    /\ response = NoResponse
    /\ looked_up = FALSE
    /\ decoded = FALSE
    /\ outcome = NoOutcome
    /\ result = NoOutcome

\* api.py:39-40
set_auth(a) ==
    /\ auth' = a
    /\ installed' = a
    /\ UNCHANGED <<errors_all, error_map_cache, pc, call, sent,
                   transport_calls, response, looked_up, decoded, outcome,
                   result>>

\* api.py:55-60: a call up to the point where session.request blocks
request_send(entry, method, url, data) ==
    /\ pc = "idle"
    /\ call' = [entry |-> entry, method |-> method, url |-> url, data |-> data]
    /\ sent' = session_request_args(method, url, data, auth)
    /\ transport_calls' = 1
    /\ pc' = "sent"
    /\ response' = NoResponse
    /\ looked_up' = FALSE
    /\ decoded' = FALSE
    /\ outcome' = NoOutcome
    /\ result' = NoOutcome
    /\ UNCHANGED <<auth, installed, errors_all, error_map_cache>>

\* api.py:27-28
get(url) == request_send("get", "get", url, PyNone)
\* api.py:30-31
delete(url) == request_send("delete", "delete", url, PyNone)
\* api.py:33-34
post(url, data) == request_send("post", "post", url, data)
\* api.py:36-37
put(url, data) == request_send("put", "put", url, data)
\* api.py:42: request called directly
request(method, url, data) == request_send("request", method, url, data)

\* the transport gives a response: api.py:61-67 run to the end of the call
request_finish(status, content) ==
    /\ pc = "sent"
    /\ LET r == Response(status, content)
           h == handle_response(error_map_cache, errors_all, r)
       IN  /\ response' = r
           /\ outcome' = h.outcome
           /\ result' = entry_result(call.entry, h.outcome)
           /\ error_map_cache' = h.cache
           /\ looked_up' = h.looked_up
           /\ decoded' = h.decoded
    /\ pc' = "done"
    /\ UNCHANGED <<auth, installed, errors_all, call, sent, transport_calls>>

\* session.request raises: the exception leaves request at api.py:58/60
request_fails(e) ==
    /\ pc = "sent"
    /\ response' = TransportError(e)
    /\ outcome' = transport_exception(e)
    /\ result' = entry_result(call.entry, transport_exception(e))
    /\ pc' = "done"
    /\ UNCHANGED <<auth, installed, errors_all, error_map_cache, call, sent,
                   transport_calls, looked_up, decoded>>

\* the server never answers: with a timeout the transport raises when it
\* expires, without one session.request does not return
server_silent ==
    /\ pc = "sent"
    /\ IF sent.timeout.given
       THEN /\ response' = TransportError("Timeout")
            /\ outcome' = transport_exception("Timeout")
            /\ result' = entry_result(call.entry, transport_exception("Timeout"))
            /\ pc' = "done"
       ELSE /\ pc' = "blocked"
            /\ UNCHANGED <<response, outcome, result>>
    /\ UNCHANGED <<auth, installed, errors_all, error_map_cache, call, sent,
                   transport_calls, looked_up, decoded>>

\* the call has ended and its caller goes on
return_to_caller ==
    /\ pc = "done"
    /\ pc' = "idle"
    /\ call' = NoEntry
    /\ sent' = NoCall
    /\ transport_calls' = 0
    /\ response' = NoResponse
    /\ looked_up' = FALSE
    /\ decoded' = FALSE
    /\ outcome' = NoOutcome
    /\ result' = NoOutcome
    /\ UNCHANGED <<auth, installed, errors_all, error_map_cache>>

Next ==
    \/ \E a \in Credentials \cup {NoAuth} : set_auth(a)
    \/ \E u \in Urls : get(u)
    \/ \E u \in Urls : delete(u)
    \/ \E u \in Urls, d \in Payloads : post(u, d)
    \/ \E u \in Urls, d \in Payloads : put(u, d)
    \/ \E m \in Methods, u \in Urls, d \in Payloads : request(m, u, d)
    \/ \E st \in StatusCodes, b \in Bodies : request_finish(st, b)
    \/ \E e \in TransportExceptions : request_fails(e)
    \/ server_silent
    \/ return_to_caller

Spec == Init /\ [][Next]_vars

SpecAnyDecls == InitAnyDecls /\ [][Next]_vars

(***************************************************************************)
(* Properties.                                                             *)
(***************************************************************************)
\* the call in progress has got a response (not a transport failure)
Answered == pc = "done" /\ response.kind = "response"

\* the kinds, other than the base kind, that declare status code c
DeclaredFor(c) ==
    { errors_all[i].name : i \in { j \in 1 .. Len(errors_all) :
        /\ errors_all[j].name # "TraktException"
        /\ errors_all[j].http_code = c } }

\* two kinds other than the base kind declare the same status code
Collision ==
    \E i, j \in 1 .. Len(errors_all) :
        /\ i # j
        /\ errors_all[i].name # "TraktException"
        /\ errors_all[j].name # "TraktException"
        /\ errors_all[i].http_code = errors_all[j].http_code

\* the payload {"page": 2} and the text '{"page": 2}'
PagePayload == PyDict(<< <<PyStr(<<112, 97, 103, 101>>), PyInt(2)>> >>)
PageJson == <<123, 34, 112, 97, 103, 101, 34, 58, 32, 50, 125>>
\* the text 'null'
NullJson == <<110, 117, 108, 108>>

\* C1: with any method, a response whose status code is declared by an error
\* kind makes request raise that kind, constructed with the response, and
\* decode_response is not reached, whatever the body.
C1_MappedStatusRaisesKind ==
    (Answered /\ DeclaredFor(response.status_code) # {}) =>
        /\ outcome.kind = "raise"
        /\ outcome.exc \in DeclaredFor(response.status_code)
        /\ outcome.response = response
        /\ result = outcome
        /\ ~decoded

\* C1 witness: a POST answered 404 with a body that would parse as JSON
C1_Witness ==
    /\ Answered
    /\ call.method = "post"
    /\ response.status_code = 404
    /\ response.content = <<49>>
    /\ outcome.exc = "NotFoundException"
    /\ ~decoded

\* C2: with any method and any body, a response with status 204 makes the
\* call return None; neither the error map nor the decoder is reached, also
\* when an error kind declares 204.
C2_NoContentReturnsNone ==
    (Answered /\ response.status_code = 204) =>
        /\ outcome = Return(PyNone)
        /\ result = Return(PyNone)
        /\ ~looked_up
        /\ ~decoded

\* C2 witness: 204 is declared by an error kind and the 204 response has a
\* body that is not JSON
C2_Witness ==
    /\ Answered
    /\ DeclaredFor(204) # {}
    /\ response.status_code = 204
    /\ response.content = <<91>>
    /\ result = Return(PyNone)

\* C3: a GET hands its payload to the transport as query parameters and
\* sends no body; a POST or PUT hands the JSON text of its payload as the
\* body and sends no query parameters; no call has both.
C3_PayloadPlacement ==
    (pc # "idle") =>
        /\ call.method = "get" =>
              /\ sent.params = call.data
              /\ sent.data = NoBody
        /\ call.method \in {"post", "put"} =>
              /\ sent.params = PyNone
              /\ sent.data.given
              /\ sent.data.text = json_dumps(call.data)
              /\ call.data = PagePayload => sent.data.text = PageJson
              /\ call.data = PyNone => sent.data.text = NullJson
        /\ ~(sent.params # PyNone /\ sent.data.given)

\* C3 witness: a POST of {"page": 2} in flight
C3_Witness ==
    /\ pc = "sent"
    /\ call.method = "post"
    /\ call.data = PagePayload
    /\ sent.data = Body(PageJson)
    /\ sent.params = PyNone

\* C4 (as claimed): delete returns None for every response whose status is
\* declared by no error kind, whatever the body.
C4_DeleteDiscardsBody ==
    (/\ Answered
     /\ call.entry = "delete"
     /\ DeclaredFor(response.status_code) = {}) =>
        result = Return(PyNone)

C6_CredentialOfCall ==
    [][/\ (pc = "idle" /\ pc' = "sent") => sent'.auth = installed
       /\ (pc # "idle" /\ pc' # "idle") => sent'.auth = sent.auth
       /\ pc' # pc => auth' = auth
       /\ auth' = installed']_vars

\* C6 witness: the credential was replaced after a call captured the former
\* one
C6_Witness ==
    /\ pc = "sent"
    /\ sent.auth = "tokenA"
    /\ installed = NoAuth
    /\ auth = NoAuth

\* C7 (as claimed): the error map is never built from declarations in which
\* two kinds other than the base kind declare the same status code.
C7_NoMapOnCollision == error_map_cache.built => ~Collision

\* C8 (as claimed): every transport call carries the timeout TIMEOUT, so no
\* call blocks for ever.
C8_TimeoutApplied ==
    (pc # "idle") =>
        /\ sent.timeout = Timeout(TIMEOUT)
        /\ pc # "blocked"

\* C9 (as claimed): the transport call of delete(path) has no body and no
\* query parameters.
C9_DeleteNoPayload ==
    (pc # "idle" /\ call.entry = "delete") =>
        /\ sent.data = NoBody
        /\ sent.params = PyNone

\* C10: a call makes one transport call, whatever its outcome; an exception
\* of the transport leaves the call unchanged, with no error-map lookup and
\* no decoding.
C10_OneCallNoWrapping ==
    /\ pc \in {"sent", "done", "blocked"} => transport_calls = 1
    /\ (pc = "done" /\ response.kind = "error") =>
          /\ outcome = Raise(response.exc, NoResponse)
          /\ result = outcome
          /\ ~looked_up
          /\ ~decoded

\* C10 witness: a PUT that ended with the transport's ConnectionError
C10_Witness ==
    /\ pc = "done"
    /\ call.method = "put"
    /\ response = TransportError("ConnectionError")
    /\ outcome.exc = "ConnectionError"
    /\ transport_calls = 1

=============================================================================
